---- MODULE Spec2Model ----
(***************************************************************************)
(* State-machine model of the asynchronous extraction pipeline of          *)
(* src/app_docker.py: the /upload handler, the worker thread               *)
(* extract_text_from_files_thread with extract_text_from_file_async, the   *)
(* /check_status poll and the /reset handler, all acting on the global     *)
(* dictionary processing_status and on the uploads folder.                 *)
(*                                                                         *)
(* Conventions.                                                            *)
(*  - time.time() is the wall clock; the model keeps it in milliseconds    *)
(*    (clock), so str(int(time.time() * 1000)) is the clock value itself   *)
(*    and "t1 - t0 > 25" seconds is clock1 - clock0 > Deadline * MsPerSec. *)
(*  - a Python string is a sequence of tokens (Seq(STRING)); "" is << >>.  *)
(*  - a dictionary entry is a record whose optional keys hold << >> when   *)
(*    the key is absent and <<v>> when it maps to v.                       *)
(*  - the registry key task_id is <<id, "">>, the key f"{task_id}_file"    *)
(*    is <<id, "_file">>.                                                  *)
(***************************************************************************)
EXTENDS Integers, Sequences, FiniteSets, TLC

\* ------------------------------------------------------------- bounds
\* Number of /upload requests the model issues.
MaxUploads == 2
\* Number of milliseconds the wall clock advances.
MaxTicks == 1
\* Number of /reset requests the model issues.
MaxResets == 1
\* Wall clock (ms since the epoch) when the first request arrives; any real
\* clock is far beyond the 25 s deadline measured from the epoch.
EpochNow == 30000
\* Longest trimmed embedded text of a PDF page, in characters, among the
\* pages the page loop is applied to.
MaxPageLen == 12

\* ------------------------------------------------- program constants
\* Timeout 25s (line 93).
Deadline == 25
\* time.time() * 1000 (line 228).
MsPerSec == 1000
\* 10 * 1024 * 1024 (line 237).
SizeLimit == 10485760
\* len(page_text) > 10 (line 100).
MinPageChars == 10

\* ------------------------------------------------------------ strings
Whitespace == {"\n", " "}

RECURSIVE LStrip(_)
LStrip(s) ==
    IF s # << >> /\ Head(s) \in Whitespace THEN LStrip(Tail(s)) ELSE s

RECURSIVE RStrip(_)
RStrip(s) ==
    IF s # << >> /\ s[Len(s)] \in Whitespace
    THEN RStrip(SubSeq(s, 1, Len(s) - 1))
    ELSE s

\* str.strip()
Strip(s) == RStrip(LStrip(s))

\* "\n\n".join(texts)
RECURSIVE Join(_)
Join(texts) ==
    IF texts = << >> THEN << >>
    ELSE IF Len(texts) = 1 THEN texts[1]
    ELSE texts[1] \o <<"\n\n">> \o Join(Tail(texts))

\* str.lower() on an extension
Lower(e) ==
    CASE e = ".PDF" -> ".pdf"
      [] e = ".TXT" -> ".txt"
      [] OTHER -> e

\* ------------------------------------------------------ uploaded files
\* A file name is <<stem, extension>>; the empty file name is <<"", "">>.
NoName == <<"", "">>

\* os.path.splitext(file_path)[1].lower()
Ext(path) == Lower(path[2][2])

\* What the libraries find in a stored file.
TextContent(t) == [kind |-> "text", text |-> t, pages |-> << >>]
BinaryContent == [kind |-> "binary", text |-> << >>, pages |-> << >>]
ImageContent(t) == [kind |-> "image", text |-> t, pages |-> << >>]
DocxContent(paras) == [kind |-> "docx", text |-> paras, pages |-> << >>]
XlsxContent(cells) == [kind |-> "xlsx", text |-> cells, pages |-> << >>]
PdfContent(pages) == [kind |-> "pdf", text |-> << >>, pages |-> pages]

\* One PDF page: the embedded text layer, its trimmed length in characters,
\* and the OCR reading of each embedded image ("!" marks an OCR fault).
DigitalPage == [embedded |-> <<"Patient: Smith">>, len |-> 14, images |-> << >>]
ScannedPage == [embedded |-> << >>, len |-> 0, images |-> <<"scan">>]

\* One part of the multipart request.
Part(name, size, content) ==
    [filename |-> name, content_length |-> size, content |-> content]

ReportTxt == Part(<<"report", ".txt">>, 0,
                  TextContent(<<"Paziente: Mario Rossi", "\n">>))
NotesTxt == Part(<<"notes", ".txt">>, 0, TextContent(<<"Esami nella norma">>))
BrokenTxt == Part(<<"broken", ".txt">>, 0, BinaryContent)
ReportPdf == Part(<<"referto", ".pdf">>, 0, PdfContent(<<DigitalPage>>))
UnknownXyz == Part(<<"data", ".xyz">>, 0, TextContent(<<"raw">>))
BigPng == Part(<<"big", ".png">>, SizeLimit + 1, ImageContent(<<"ocr">>))
Unnamed == Part(NoName, 0, TextContent(<< >>))
ExactPng == Part(<<"exact", ".png">>, SizeLimit, ImageContent(<<"ocr">>))
OneByteTxt == Part(<<"one", ".txt">>, 1, TextContent(<<"x">>))

\* The requests the clients send: the list request.files.getlist("file").
Submissions ==
    { << >>,
      <<Unnamed>>,
      <<BigPng>>,
      <<ReportTxt>>,
      <<ReportPdf>>,
      <<ReportPdf, NotesTxt>>,
      <<BrokenTxt, NotesTxt>>,
      <<ReportTxt, ReportTxt, UnknownXyz>> }

\* The requests of a single client, with the border cases of the checks of
\* lines 232 and 237 and of the extension dispatch.
SoloSubmissions ==
    Submissions \cup
    { <<NotesTxt, UnknownXyz>>,
      <<Unnamed, ReportTxt>>,
      <<ExactPng>>,
      <<ExactPng, OneByteTxt>>,
      <<OneByteTxt>> }

\* ------------------------------------------------------------- state
VARIABLES
    clock,              \* time.time(), in milliseconds
    processing_status,  \* the global dict (line 37)
    uploads,            \* the files in UPLOAD_FOLDER: path -> content
    req,                \* each /upload request and the worker it starts
    resets              \* number of /reset requests served

vars == <<clock, processing_status, uploads, req, resets>>

Requests == 1 .. MaxUploads

\* One "_file" key for all tasks, not qualified by the task id.
FileKey_Shared(id) == <<0, "_file">>

TaskKey(id) == <<id, "">>
\* f"{task_id}_file" (line 264)
FileKey(id) == <<id, "_file">>

\* d[k] = v on a dict
Put(d, k, v) == [x \in DOMAIN d \cup {k} |-> IF x = k THEN v ELSE d[x]]
\* d[k][field] = v on a dict of dicts (k is present)
PutField(d, k, field, v) == [d EXCEPT ![k] = [@ EXCEPT ![field] = <<v>>]]
\* d.get(field, default) on an entry
Get(entry, field, default) ==
    IF entry[field] = << >> THEN default ELSE entry[field][1]

\* {"status": "starting", "start_time": time.time()} (line 229)
StartingEntry(now) ==
    [status |-> <<"starting">>, start_time |-> <<now>>,
     progress |-> << >>, result |-> << >>]
\* {"status": "processing", "progress": 0} (line 84); a progress value is
\* the fraction <<numerator, denominator>>.
ProcessingEntry ==
    [status |-> <<"processing">>, start_time |-> << >>,
     progress |-> << <<0, 1>> >>, result |-> << >>]

\* os.path.join(UPLOAD_FOLDER, f"{task_id}_{file.filename}") (line 244)
UploadPath(id, part) == <<id, part.filename>>
\* os.path.join(UPLOAD_FOLDER, f"temp_img_{task_id}.{img_ext}") (line 111),
\* task_id being the "_file" key of the worker
TempImgPath(id) == <<id, <<"temp_img", ".png">>>>

\* The worker of a request before it exists. wiped, hit_at and page_ocr are
\* history: whether a /reset was served after the request was registered,
\* the clock at which the deadline check of line 93 first fired (0: never),
\* and the number of pytesseract.image_to_string calls made for PDF pages
\* (lines 121 and 126).
IdleReq ==
    [pc |-> "idle", task_id |-> 0, files |-> << >>, filepaths |-> << >>,
     idx |-> 0, texts |-> << >>, text |-> << >>, doc |-> << >>, page |-> 0,
     err |-> "", resp |-> 0, wiped |-> FALSE, hit_at |-> 0, page_ocr |-> 0]

\* --------------------------------------------- the format dispatcher
OcrFault == "!"

Raise(e) == [ok |-> FALSE, text |-> << >>, err |-> e]
Return(t) == [ok |-> TRUE, text |-> t, err |-> ""]

\* text += para.text + "\n" for each paragraph (lines 153-154)
RECURSIVE DocxText(_)
DocxText(paras) ==
    IF paras = << >> THEN << >>
    ELSE <<Head(paras), "\n">> \o DocxText(Tail(paras))

\* header and df.to_string per sheet (lines 158-160); cells alternates
\* sheet name and rendered table
RECURSIVE XlsxText(_)
XlsxText(cells) ==
    IF Len(cells) < 2 THEN << >>
    ELSE <<"\n", "--- Foglio: ", cells[1], " ---", "\n", cells[2]>>
         \o XlsxText(SubSeq(cells, 3, Len(cells)))

\* The branches of extract_text_from_file_async for everything but a PDF
\* (lines 134-160): the text read from the stored file, or the exception.
ExtractPlain(ext, disk, path) ==
    LET there == path \in DOMAIN disk
        c == disk[path]
    IN  CASE ext \in {".png", ".jpg", ".jpeg"} ->
               IF ~there THEN Raise("FileNotFoundError")
               ELSE IF c.kind # "image" THEN Raise("UnidentifiedImageError")
               ELSE IF c.text = <<OcrFault>> THEN Raise("TesseractError")
               ELSE Return(c.text)
          [] ext = ".txt" ->
               IF ~there THEN Raise("FileNotFoundError")
               ELSE IF c.kind # "text" THEN Raise("UnicodeDecodeError")
               ELSE Return(c.text)
          [] ext = ".docx" ->
               IF ~there \/ c.kind # "docx" THEN Raise("PackageNotFoundError")
               ELSE Return(DocxText(c.text))
          [] ext = ".xlsx" ->
               IF ~there THEN Raise("FileNotFoundError")
               ELSE IF c.kind # "xlsx" THEN Raise("BadZipFile")
               ELSE Return(XlsxText(c.text))
          [] OTHER -> Return(<< >>)

\* fitz.open(file_path) (line 89)
PdfOpen(disk, path) ==
    IF path \in DOMAIN disk /\ disk[path].kind = "pdf"
    THEN Return(<< >>)
    ELSE Raise("FileDataError")

\* text.strip() if text else "Nessun testo estratto" (line 163)
FileResult(text) ==
    IF text = << >> THEN <<"Nessun testo estratto">> ELSE Strip(text)

\* ------------------------------------------------------------- Init
Init ==
    /\ clock = EpochNow
    /\ processing_status = << >>
    /\ uploads = << >>
    /\ req = [r \in Requests |-> IdleReq]
    /\ resets = 0

Status(entry) == entry.status[1]
Terminal == {"completed", "error", "timeout"}

Set(r, fields) ==
    [req EXCEPT ![r] = [f \in DOMAIN @ |->
        IF f \in DOMAIN fields THEN fields[f] ELSE @[f]]]

\* sum(file.content_length or 0 for file in files if file.content_length)
RECURSIVE TotalSize(_)
TotalSize(files) ==
    IF files = << >> THEN 0
    ELSE Head(files).content_length + TotalSize(Tail(files))

\* for file in files: if file.filename: ... filepaths.append(filepath)
RECURSIVE FilePaths(_, _)
FilePaths(id, files) ==
    IF files = << >> THEN << >>
    ELSE IF Head(files).filename = NoName THEN FilePaths(id, Tail(files))
    ELSE <<UploadPath(id, Head(files))>> \o FilePaths(id, Tail(files))

\* for file in files: if file.filename: file.save(filepath)
RECURSIVE SaveAll(_, _, _)
SaveAll(disk, id, files) ==
    IF files = << >> THEN disk
    ELSE IF Head(files).filename = NoName THEN SaveAll(disk, id, Tail(files))
    ELSE SaveAll(Put(disk, UploadPath(id, Head(files)), Head(files).content),
                 id, Tail(files))

\* not files or not files[0].filename (line 232)
NoFile(files) == IF files = << >> THEN TRUE ELSE files[1].filename = NoName
\* total_size > 10 * 1024 * 1024 (line 237)
TooBig(files) == TotalSize(files) > SizeLimit

\* ------------------------------------------------------ /upload
\* Lines 228-231: the task id is taken from the clock and the entry is
\* written before the request is looked at.
UploadBegin(r, files) ==
    /\ req[r].pc = "idle"
    /\ \A q \in Requests : q < r => req[q].pc # "idle"
    /\ processing_status' =
           Put(processing_status, TaskKey(clock), StartingEntry(clock))
    /\ req' = Set(r, [pc |-> "validate", task_id |-> clock, files |-> files])
    /\ UNCHANGED <<clock, uploads, resets>>

\* Lines 232-238: the two 400 responses.
UploadReject(r) ==
    /\ req[r].pc = "validate"
    /\ IF NoFile(req[r].files) THEN TRUE ELSE TooBig(req[r].files)
    /\ req' = Set(r, [pc |-> "rejected", resp |-> 400])
    /\ UNCHANGED <<clock, processing_status, uploads, resets>>

\* The handler that starts on the first file itself before it answers.
UploadAccept_Inline(r) ==
    /\ req[r].pc = "validate"
    /\ ~NoFile(req[r].files)
    /\ ~TooBig(req[r].files)
    /\ uploads' = SaveAll(uploads, req[r].task_id, req[r].files)
    /\ processing_status' =
           Put(processing_status, FileKey(req[r].task_id), ProcessingEntry)
    /\ req' = Set(r, [pc |-> "loop", resp |-> 200, idx |-> 1,
                      filepaths |-> FilePaths(req[r].task_id, req[r].files)])
    /\ UNCHANGED <<clock, resets>>

\* Lines 240-253: the files are saved, the thread is started, and the
\* handler answers with the task id.
UploadAccept(r) ==
    /\ req[r].pc = "validate"
    /\ ~NoFile(req[r].files)
    /\ ~TooBig(req[r].files)
    /\ uploads' = SaveAll(uploads, req[r].task_id, req[r].files)
    /\ req' = Set(r, [pc |-> "loop", resp |-> 200, idx |-> 1,
                      filepaths |-> FilePaths(req[r].task_id, req[r].files)])
    /\ UNCHANGED <<clock, processing_status, resets>>

\* ------------------------- extract_text_from_file_async (lines 81-168)
\* The worker of request r is at filepaths[idx], under the key
\* f"{task_id}_file".
CurPath(r) == req[r].filepaths[req[r].idx]
CurKey(r) == FileKey(req[r].task_id)

\* Lines 84-90 and 134-160, reached from the for loop of line 263: the
\* entry of the file is created anew for every file, then the extension
\* decides. A PDF is opened and its pages are left to PdfPage; every other
\* format is read at once.
FileExtract(r) ==
    /\ req[r].pc = "loop"
    /\ req[r].idx <= Len(req[r].filepaths)
    /\ processing_status' = Put(processing_status, CurKey(r), ProcessingEntry)
    /\ LET ext == Ext(CurPath(r))
           got == IF ext = ".pdf" THEN PdfOpen(uploads, CurPath(r))
                  ELSE ExtractPlain(ext, uploads, CurPath(r))
       IN  req' =
             IF ~got.ok THEN Set(r, [pc |-> "exc", err |-> got.err])
             ELSE IF ext = ".pdf" /\ uploads[CurPath(r)].pages # << >>
             THEN Set(r, [pc |-> "pdf_page", page |-> 1,
                          doc |-> uploads[CurPath(r)].pages])
             ELSE Set(r, [pc |-> "set_completed", text |-> got.text])
    /\ UNCHANGED <<clock, uploads, resets>>

\* time.time() - processing_status[task_id].get("start_time", 0) > 25
\* (line 93), task_id being the "_file" key.
TimedOut(entry, now) ==
    now - Get(entry, "start_time", 0) > Deadline * MsPerSec

\* page_text and len(page_text) > 10 (line 100)
IsDigital(p) == p.embedded # << >> /\ p.len > MinPageChars

\* Lines 97-131, the body of the page loop for page req[r].page: the
\* progress write, then the embedded text of the page when it is long
\* enough, else the OCR of the first embedded image through a temporary
\* image file (nothing at all when the page holds no image).
PageBody(r) ==
    LET key == CurKey(r)
        p == req[r].doc[req[r].page]
        total == Len(req[r].doc)
        last == req[r].page = total
        after == IF last THEN "set_completed" ELSE "pdf_page"
        tmp == TempImgPath(req[r].task_id)
    IN  /\ processing_status' =
               PutField(processing_status, key, "progress",
                        <<req[r].page * 100, total>>)
        /\ IF IsDigital(p)
           THEN /\ req' = Set(r, [pc |-> after,
                           page |-> IF last THEN 0 ELSE req[r].page + 1,
                           doc |-> IF last THEN << >> ELSE req[r].doc,
                           text |-> req[r].text \o p.embedded \o <<"\n">>])
                /\ UNCHANGED uploads
           ELSE IF p.images = << >>
           THEN /\ req' = Set(r, [pc |-> after,
                           page |-> IF last THEN 0 ELSE req[r].page + 1,
                           doc |-> IF last THEN << >> ELSE req[r].doc])
                /\ UNCHANGED uploads
           ELSE IF p.images[1] = OcrFault
           THEN /\ uploads' = Put(uploads, tmp, ImageContent(<<OcrFault>>))
                /\ req' = Set(r, [pc |-> "exc", err |-> "TesseractError",
                                  doc |-> << >>, page |-> 0,
                                  page_ocr |-> req[r].page_ocr + 1])
           ELSE /\ uploads' = [x \in DOMAIN uploads \ {tmp} |-> uploads[x]]
                /\ req' = Set(r, [pc |-> after,
                           page |-> IF last THEN 0 ELSE req[r].page + 1,
                           doc |-> IF last THEN << >> ELSE req[r].doc,
                           text |-> req[r].text \o <<p.images[1], "\n">>,
                           page_ocr |-> req[r].page_ocr + 1])

\* Lines 92-131, one turn of the page loop: the deadline check, then the
\* body of the loop.
PdfPage(r) ==
    /\ req[r].pc = "pdf_page"
    /\ LET key == CurKey(r)
       IN  IF key \notin DOMAIN processing_status
           THEN /\ req' = Set(r, [pc |-> "exc", err |-> "KeyError", doc |-> << >>])
                /\ UNCHANGED <<processing_status, uploads>>
           ELSE IF TimedOut(processing_status[key], clock)
           THEN /\ processing_status' =
                       PutField(processing_status, key, "status", "timeout")
                /\ req' = Set(r, [pc |-> "collect", doc |-> << >>, page |-> 0,
                                  hit_at |-> IF req[r].hit_at = 0 THEN clock
                                             ELSE req[r].hit_at])
                /\ UNCHANGED uploads
           ELSE PageBody(r)
    /\ UNCHANGED <<clock, resets>>

\* Lines 162-163. A missing key raises inside the try block.
FileSetCompleted(r) ==
    /\ req[r].pc = "set_completed"
    /\ IF CurKey(r) \in DOMAIN processing_status
       THEN /\ processing_status' =
                   PutField(PutField(processing_status, CurKey(r),
                                     "status", "completed"),
                            CurKey(r), "result", FileResult(req[r].text))
            /\ req' = Set(r, [pc |-> "collect", text |-> << >>])
       ELSE /\ req' = Set(r, [pc |-> "exc", err |-> "KeyError", text |-> << >>])
            /\ UNCHANGED processing_status
    /\ UNCHANGED <<clock, uploads, resets>>

\* Lines 165-168, the except block: f"Errore: {str(e)}". A missing key
\* raises out of the function, into the try block of the thread.
FileExcept(r) ==
    /\ req[r].pc = "exc"
    /\ IF CurKey(r) \in DOMAIN processing_status
       THEN /\ processing_status' =
                   PutField(PutField(processing_status, CurKey(r),
                                     "status", "error"),
                            CurKey(r), "result", <<"Errore: ", req[r].err>>)
            /\ req' = Set(r, [pc |-> "collect", err |-> "", text |-> << >>])
       ELSE /\ req' = Set(r, [pc |-> "thr_exc", err |-> "KeyError", text |-> << >>])
            /\ UNCHANGED processing_status
    /\ UNCHANGED <<clock, uploads, resets>>

\* ------------------- extract_text_from_files_thread (lines 259-275)
MyKey(r) == TaskKey(req[r].task_id)

\* The loop that removes the file only when it is there.
ThreadCollect_Tolerant(r) ==
    /\ req[r].pc = "collect"
    /\ LET texts == IF CurKey(r) \in DOMAIN processing_status
                    THEN Append(req[r].texts,
                                Get(processing_status[CurKey(r)], "result", << >>))
                    ELSE req[r].texts
       IN  /\ uploads' = [x \in DOMAIN uploads \ {CurPath(r)} |-> uploads[x]]
           /\ req' = Set(r, [pc |-> "loop", idx |-> req[r].idx + 1,
                             texts |-> texts])
    /\ UNCHANGED <<clock, processing_status, resets>>

\* Lines 265-267: the result of the file entry is collected, "" when it
\* has none, and the file is removed; os.remove raises when the file is
\* not there.
ThreadCollect(r) ==
    /\ req[r].pc = "collect"
    /\ LET texts == IF CurKey(r) \in DOMAIN processing_status
                    THEN Append(req[r].texts,
                                Get(processing_status[CurKey(r)], "result", << >>))
                    ELSE req[r].texts
       IN  IF CurPath(r) \in DOMAIN uploads
           THEN /\ uploads' = [x \in DOMAIN uploads \ {CurPath(r)} |-> uploads[x]]
                /\ req' = Set(r, [pc |-> "loop", idx |-> req[r].idx + 1,
                                  texts |-> texts])
           ELSE /\ req' = Set(r, [pc |-> "thr_exc", err |-> "FileNotFoundError",
                                  texts |-> << >>])
                /\ UNCHANGED uploads
    /\ UNCHANGED <<clock, processing_status, resets>>

\* Lines 269-270, after the last file.
ThreadSetCompleted(r) ==
    /\ req[r].pc = "loop"
    /\ req[r].idx > Len(req[r].filepaths)
    /\ IF MyKey(r) \in DOMAIN processing_status
       THEN /\ processing_status' =
                   PutField(processing_status, MyKey(r), "status", "completed")
            /\ req' = Set(r, [pc |-> "thr_result"])
       ELSE /\ req' = Set(r, [pc |-> "thr_exc", err |-> "KeyError",
                              texts |-> << >>])
            /\ UNCHANGED processing_status
    /\ UNCHANGED <<clock, uploads, resets>>

\* Line 271.
ThreadSetResult(r) ==
    /\ req[r].pc = "thr_result"
    /\ IF MyKey(r) \in DOMAIN processing_status
       THEN /\ processing_status' =
                   PutField(processing_status, MyKey(r), "result",
                            Join(req[r].texts))
            /\ req' = Set(r, [pc |-> "done", texts |-> << >>])
       ELSE /\ req' = Set(r, [pc |-> "thr_exc", err |-> "KeyError",
                              texts |-> << >>])
            /\ UNCHANGED processing_status
    /\ UNCHANGED <<clock, uploads, resets>>

\* The thread without its except block: the exception ends the thread.
ThreadExcStatus_Unguarded(r) ==
    /\ req[r].pc = "thr_exc"
    /\ req' = Set(r, [pc |-> "dead"])
    /\ UNCHANGED <<clock, processing_status, uploads, resets>>

\* Line 274, in the except block of the thread: a missing key raises out
\* of the thread, which ends there.
ThreadExcStatus(r) ==
    /\ req[r].pc = "thr_exc"
    /\ IF MyKey(r) \in DOMAIN processing_status
       THEN /\ processing_status' =
                   PutField(processing_status, MyKey(r), "status", "error")
            /\ req' = Set(r, [pc |-> "thr_exc_result"])
       ELSE /\ req' = Set(r, [pc |-> "dead", err |-> "KeyError"])
            /\ UNCHANGED processing_status
    /\ UNCHANGED <<clock, uploads, resets>>

\* Line 275: str(e).
ThreadExcResult(r) ==
    /\ req[r].pc = "thr_exc_result"
    /\ IF MyKey(r) \in DOMAIN processing_status
       THEN /\ processing_status' =
                   PutField(processing_status, MyKey(r), "result",
                            <<req[r].err>>)
            /\ req' = Set(r, [pc |-> "done", err |-> ""])
       ELSE /\ req' = Set(r, [pc |-> "dead", err |-> "KeyError"])
            /\ UNCHANGED processing_status
    /\ UNCHANGED <<clock, uploads, resets>>

\* ------------------------------------------- /check_status (277-283)
\* The handler only reads: its response is a function of the dictionary at
\* the moment of the call, 404 for a key that is not there and otherwise
\* the entry itself.
check_status(k) ==
    IF k \notin DOMAIN processing_status
    THEN [code |-> 404, body |-> << >>]
    ELSE [code |-> 200, body |-> <<processing_status[k]>>]

\* The ids a client asks for: every id the clock can give, one that no
\* upload was given, and the "_file" keys.
PollKeys ==
    {TaskKey(t) : t \in EpochNow - 1 .. EpochNow + MaxTicks}
    \cup {FileKey(t) : t \in EpochNow .. EpochNow + MaxTicks}

\* ---------------------------------------------------- /reset (315-330)
\* shutil.rmtree on the folders and processing_status.clear(); wiped
\* records, for each request already registered, that a reset came after.
reset ==
    /\ resets < MaxResets
    /\ resets' = resets + 1
    /\ uploads' = << >>
    /\ processing_status' = << >>
    /\ req' = [r \in Requests |->
                 [req[r] EXCEPT !.wiped = @ \/ req[r].pc # "idle"]]
    /\ UNCHANGED clock

\* The wall clock advances.
Tick ==
    /\ clock < EpochNow + MaxTicks
    /\ clock' = clock + 1
    /\ UNCHANGED <<processing_status, uploads, req, resets>>

\* One step of the worker thread of request r.
Worker(r) ==
    \/ FileExtract(r)
    \/ PdfPage(r)
    \/ FileSetCompleted(r)
    \/ FileExcept(r)
    \/ ThreadCollect(r)
    \/ ThreadSetCompleted(r)
    \/ ThreadSetResult(r)
    \/ ThreadExcStatus(r)
    \/ ThreadExcResult(r)

\* One step of the handler of /upload request r.
Upload(r) ==
    \/ \E files \in Submissions : UploadBegin(r, files)
    \/ UploadReject(r)
    \/ UploadAccept(r)

Next ==
    \/ \E r \in Requests : Upload(r)
    \/ \E r \in Requests : Worker(r)
    \/ reset
    \/ Tick

Spec == Init /\ [][Next]_vars

\* ----------------------------------------------- one client alone
\* The same handlers and worker with a single /upload request in flight,
\* drawn from SoloSubmissions.
SoloUpload ==
    \/ \E files \in SoloSubmissions : UploadBegin(1, files)
    \/ UploadReject(1)
    \/ UploadAccept(1)

SoloNext ==
    \/ SoloUpload
    \/ Worker(1)
    \/ reset
    \/ Tick

SoloSpec == Init /\ [][SoloNext]_vars

\* ------------------------------------- the page loop body on its own
\* page.get_text().strip() of n characters and page.get_images() (lines 99
\* and 105) of one page.
PageOf(n, imgs) ==
    [embedded |-> IF n = 0 THEN << >> ELSE <<"text">>, len |-> n,
     images |-> imgs]

Pages ==
    {PageOf(n, imgs) : n \in 0 .. MaxPageLen,
                       imgs \in {<< >>, <<"scan">>, <<OcrFault>>}}

PagePdf(p) == Part(<<"page", ".pdf">>, 0, PdfContent(<<p>>))

\* Each worker stands at the body of the page loop (line 97) with a saved
\* one-page PDF of its own: the inputs of lines 97-131.
PageInit ==
    /\ clock = EpochNow
    /\ resets = 0
    /\ \E pg \in [Requests -> Pages] :
         LET id(r) == EpochNow + r - 1
         IN  /\ req = [r \in Requests |->
                        [IdleReq EXCEPT !.pc = "pdf_page", !.task_id = id(r),
                           !.files = <<PagePdf(pg[r])>>,
                           !.filepaths = FilePaths(id(r), <<PagePdf(pg[r])>>),
                           !.idx = 1, !.doc = <<pg[r]>>, !.page = 1,
                           !.resp = 200]]
             /\ uploads = [x \in {UploadPath(id(r), PagePdf(pg[r])) : r \in Requests}
                             |-> PdfContent(<<pg[x[1] - EpochNow + 1]>>)]
             /\ processing_status =
                    [k \in {TaskKey(id(r)) : r \in Requests}
                           \cup {FileKey(id(r)) : r \in Requests}
                       |-> IF k[2] = "" THEN StartingEntry(k[1])
                           ELSE ProcessingEntry]

\* Lines 97-131 applied to the page.
PageStep(r) ==
    /\ req[r].pc = "pdf_page"
    /\ PageBody(r)
    /\ UNCHANGED <<clock, resets>>

PageNext == \E r \in Requests : PageStep(r)

PageSpec == PageInit /\ [][PageNext]_vars

\* ================================================================
\* Properties
\* ================================================================
Accepted(r) == req[r].resp = 200
Rejected(r) == req[r].resp = 400
\* No other request was given the task id of request r.
UniqueId(r) ==
    \A q \in Requests \ {r} :
        req[q].pc # "idle" => req[q].task_id # req[r].task_id
\* The entry of the task of request r is there and terminal.
TaskTerminal(r) ==
    /\ MyKey(r) \in DOMAIN processing_status
    /\ Status(processing_status[MyKey(r)]) \in Terminal
\* The keys of tasks (not of their "_file" companions).
TaskKeys == {k \in DOMAIN processing_status : k[2] = ""}
Contains(s, tok) == \E i \in 1 .. Len(s) : s[i] = tok
\* The positions of a worker inside extract_text_from_file_async.
FilePcs == {"pdf_page", "set_completed", "exc"}

\* C1. Terminal states are final: once the entry of a task has status
\* completed, error or timeout, no step changes that status, and a result
\* stored with it is not replaced (the write of the result that completes
\* the transition itself is allowed); only /reset removes the entry.
C1_TerminalIsFinal ==
    [][\A k \in TaskKeys :
         (Status(processing_status[k]) \in Terminal
          /\ k \in DOMAIN processing_status')
         => /\ processing_status'[k].status = processing_status[k].status
            /\ processing_status[k].result # << >>
               => processing_status'[k].result = processing_status[k].result
      ]_vars

\* C2. A rejected submission leaves no entry in the registry: after the
\* 400 response the key of the rejected request is absent (unless an
\* accepted request was given the same id).
C2_RejectionLeavesNoEntry ==
    \A r \in Requests :
        (Rejected(r) /\ UniqueId(r)) => MyKey(r) \notin DOMAIN processing_status

\* C4. Every snapshot check_status returns for the id of a task carries,
\* with a terminal status, the result (the extracted text or the message).
C4_TerminalSnapshotHasResult ==
    \A r \in Requests :
        (req[r].pc # "idle" /\ ~req[r].wiped /\ UniqueId(r))
        => LET resp == check_status(MyKey(r))
           IN  (resp.code = 200 /\ Status(resp.body[1]) \in Terminal)
               => resp.body[1].result # << >>

\* C5. Once the deadline check of a task has fired, its worker processes no
\* further page or file, and the task ends in status timeout.
C5_TimeoutEndsTask ==
    \A r \in Requests :
        (req[r].hit_at # 0 /\ ~req[r].wiped /\ UniqueId(r))
        => /\ req[r].pc \notin FilePcs
           /\ req[r].pc = "done"
              => Status(processing_status[MyKey(r)]) = "timeout"

\* What extract_text_from_file_async yields for a stored file when nothing
\* interferes: the stripped text, or the marker of line 167.
RECURSIVE PagesText(_)
PagesText(pages) ==
    IF pages = << >> THEN << >>
    ELSE (IF IsDigital(Head(pages)) THEN Head(pages).embedded \o <<"\n">>
          ELSE IF Head(pages).images = << >> THEN << >>
          ELSE <<Head(pages).images[1], "\n">>)
         \o PagesText(Tail(pages))

Fragment(part) ==
    LET path == UploadPath(0, part)
        disk == Put(<< >>, path, part.content)
        ext == Ext(path)
        got == IF ext = ".pdf" THEN PdfOpen(disk, path)
               ELSE ExtractPlain(ext, disk, path)
    IN  IF ~got.ok THEN <<"Errore: ", got.err>>
        ELSE IF ext = ".pdf" THEN FileResult(PagesText(part.content.pages))
        ELSE FileResult(got.text)

Fragments(files) == [i \in 1 .. Len(files) |-> Fragment(files[i])]

\* The task of request r ran to its end alone: no reset, no shared id.
RanAlone(r) == req[r].pc = "done" /\ ~req[r].wiped /\ UniqueId(r)

\* C6. The deadline check fires only when more than 25 seconds have passed
\* since the start_time of the task, and a task made of one digital-text PDF
\* that stays within the deadline ends completed with the embedded text in
\* its result.
C6_TimeoutOnlyPastDeadline ==
    \A r \in Requests :
        /\ req[r].hit_at # 0
           => req[r].hit_at - req[r].task_id > Deadline * MsPerSec
        /\ (RanAlone(r) /\ req[r].files = <<ReportPdf>>
            /\ clock - req[r].task_id <= Deadline * MsPerSec)
           => /\ Status(processing_status[MyKey(r)]) = "completed"
              /\ Contains(processing_status[MyKey(r)].result[1],
                          "Patient: Smith")

\* C7. The result of a task of N files is the N fragments of its files, in
\* submission order, joined by a blank line: the error marker for a file
\* whose extraction failed, the extracted text for every other file.
C7_ResultJoinsAllFragments ==
    \A r \in Requests :
        RanAlone(r)
        => /\ Status(processing_status[MyKey(r)]) = "completed"
           /\ processing_status[MyKey(r)].result
                  = <<Join(Fragments(req[r].files))>>

\* C8. When the task of a request is terminal, none of the files saved for
\* it and no temporary page image of it is left in the uploads folder.
C8_NoArtifactAfterTerminal ==
    \A r \in Requests :
        (Accepted(r) /\ ~req[r].wiped /\ UniqueId(r) /\ TaskTerminal(r))
        => /\ \A i \in 1 .. Len(req[r].filepaths) :
                  req[r].filepaths[i] \notin DOMAIN uploads
           /\ TempImgPath(req[r].task_id) \notin DOMAIN uploads

\* C9. Every status is one of pending (written "starting" by upload_file),
\* processing, completed, error, timeout, and the status of a task changes
\* only along pending -> processing -> {completed, error, timeout}.
C9_StatusStateMachine ==
    [][/\ \A k \in DOMAIN processing_status' :
              Status(processing_status'[k])
                  \in {"starting", "processing", "completed", "error", "timeout"}
       /\ \A r \in Requests :
              (req[r].pc # "idle" /\ ~req'[r].wiped /\ UniqueId(r)')
              => LET old == Status(processing_status[MyKey(r)])
                     new == Status(processing_status'[MyKey(r)])
                 IN  \/ new = old
                     \/ old = "starting" /\ new = "processing"
                     \/ old = "processing" /\ new \in Terminal
      ]_vars

\* a <= b for two progress values <<numerator, denominator>>
ProgressLeq(a, b) == a[1] * b[2] <= b[1] * a[2]

\* The worker of request r, past a PDF with pages, starts its next file.
StartsFileAfterPdf(r) ==
    /\ req[r].pc = "loop"
    /\ req'[r].pc \in FilePcs
    /\ req[r].idx > 1
    /\ LET prev == req[r].filepaths[req[r].idx - 1]
       IN  \E i \in 1 .. Len(req[r].files) :
               /\ UploadPath(req[r].task_id, req[r].files[i]) = prev
               /\ req[r].files[i].content.kind = "pdf"
               /\ req[r].files[i].content.pages # << >>

\* C10. The progress of a task never decreases, and it is not put back to
\* zero when the next file of a multi-file task starts: after a PDF whose
\* pages were counted, the next file starts with progress above zero.
C10_ProgressMonotonic ==
    [][/\ \A k \in DOMAIN processing_status :
              (k \in DOMAIN processing_status'
               /\ processing_status[k].progress # << >>)
              => /\ processing_status'[k].progress # << >>
                 /\ ProgressLeq(processing_status[k].progress[1],
                                processing_status'[k].progress[1])
       /\ \A r \in Requests :
              StartsFileAfterPdf(r)
              => processing_status'[CurKey(r)].progress[1][1] > 0
      ]_vars

\* C11. Every submission is given a task id that no other submission has:
\* two requests that were registered never hold the same id.
C11_TaskIdsAreUnique ==
    \A r \in Requests : \A q \in Requests \ {r} :
        (req[r].pc # "idle" /\ req[q].pc # "idle")
        => req[r].task_id # req[q].task_id

\* The ids upload_file has given out so far, as registry keys.
IssuedKeys == {TaskKey(req[r].task_id) : r \in {q \in Requests : req[q].pc # "idle"}}

\* C12. A status query for an id that no submission was ever given answers
\* 404 not found (the handler itself writes nothing: check_status only reads
\* processing_status).
C12_UnknownIdNotFound ==
    \A k \in PollKeys : k \notin IssuedKeys => check_status(k).code = 404

\* The page the worker of request r was given in PageSpec.
PageGiven(r) == req[r].files[1].content.pages[1]

Supported == {".pdf", ".png", ".jpg", ".jpeg", ".txt", ".docx", ".xlsx"}
Unsupported(part) == Ext(UploadPath(0, part)) \notin Supported
\* text = "Formato non supportato." (src/app.py, the else branch of
\* extract_text_from_file)
UnsupportedMarker == <<"Formato non supportato.">>
\* No two parts of the request carry the same filename.
DistinctNames(files) ==
    \A i \in 1 .. Len(files) : \A j \in 1 .. Len(files) :
        i # j => files[i].filename # files[j].filename

\* C14. A task of several files, one of them of an unsupported extension,
\* ends completed; the fragment of the unsupported file is the
\* unsupported-format marker and every other fragment is the extracted text
\* of its file.
C14_UnsupportedGivesSentinel ==
    \A r \in Requests :
        (/\ RanAlone(r)
         /\ Len(req[r].files) >= 2
         /\ DistinctNames(req[r].files)
         /\ \E i \in 1 .. Len(req[r].files) : Unsupported(req[r].files[i]))
        => /\ Status(processing_status[MyKey(r)]) = "completed"
           /\ processing_status[MyKey(r)].result
                = <<Join([i \in 1 .. Len(req[r].files) |->
                            IF Unsupported(req[r].files[i])
                            THEN UnsupportedMarker
                            ELSE Fragment(req[r].files[i])])>>

\* At least one part of the request carries a file.
FilePresent(files) == \E i \in 1 .. Len(files) : files[i].filename # NoName
\* The thread of request r was started.
WorkerStarted(r) == req[r].pc \notin {"idle", "validate", "rejected"}

\* C16. An upload is accepted exactly when the request carries at least one
\* file and the sum of the declared sizes is under 10 * 1024 * 1024; every
\* other upload is answered with an error and starts no worker.
C16_AcceptedIffFileAndUnderCeiling ==
    \A r \in Requests :
        req[r].pc \notin {"idle", "validate"}
        => IF FilePresent(req[r].files) /\ TotalSize(req[r].files) < SizeLimit
           THEN Accepted(r) /\ WorkerStarted(r)
           ELSE Rejected(r) /\ ~WorkerStarted(r)

\* C15. The handler of /upload does no extraction itself: the step that
\* answers with the task id saves the files and starts the worker, which has
\* not yet touched a file, and writes nothing to the registry.
C15_UploadDoesNotExtract ==
    [][\A r \in Requests :
         (req[r].resp = 0 /\ req'[r].resp = 200)
         => /\ processing_status' = processing_status
            /\ req'[r].pc = "loop"
            /\ req'[r].idx = 1
            /\ req'[r].texts = << >>
            /\ req'[r].filepaths # << >>
            /\ \A i \in 1 .. Len(req'[r].filepaths) :
                   req'[r].filepaths[i] \in DOMAIN uploads'
      ]_vars

\* The answer of /upload has been given while the task is still in its
\* first, non-terminal status and no file has been extracted.
C15_Witness ==
    \E r \in Requests :
        /\ Accepted(r)
        /\ req[r].pc = "loop"
        /\ req[r].idx = 1
        /\ MyKey(r) \in DOMAIN processing_status
        /\ Status(processing_status[MyKey(r)]) = "starting"
        /\ FileKey(req[r].task_id) \notin DOMAIN processing_status

\* C17. A step of the worker of request r changes no registry entry and no
\* file other than those qualified by the task id of r, and no other
\* request.
C17_WorkersDoNotInterfere ==
    [][\A r \in Requests :
         Worker(r)
         => /\ \A k \in DOMAIN processing_status \cup DOMAIN processing_status' :
                   k[1] # req[r].task_id
                   => /\ k \in DOMAIN processing_status
                      /\ k \in DOMAIN processing_status'
                      /\ processing_status'[k] = processing_status[k]
            /\ \A f \in DOMAIN uploads \cup DOMAIN uploads' :
                   f[1] # req[r].task_id
                   => /\ f \in DOMAIN uploads
                      /\ f \in DOMAIN uploads'
                      /\ uploads'[f] = uploads[f]
            /\ \A q \in Requests \ {r} : req'[q] = req[q]
      ]_vars

\* Two tasks with different ids, both with their files on disk and their
\* entries in the registry, one worker in the middle of a file and the
\* other already past one.
C17_Witness ==
    \E r \in Requests : \E q \in Requests \ {r} :
        /\ req[r].task_id # req[q].task_id
        /\ req[r].pc = "collect"
        /\ req[q].pc \in {"collect", "loop"}
        /\ req[q].idx >= 1
        /\ Len(req[q].filepaths) >= 2
        /\ MyKey(r) \in DOMAIN processing_status
        /\ MyKey(q) \in DOMAIN processing_status
        /\ CurKey(r) \in DOMAIN processing_status
        /\ CurKey(q) \in DOMAIN processing_status

\* C18. When two files of one submission carry the same filename both are
\* saved to one path, and the task ends in status error with the message
\* of the exception os.remove raised as its result.
C18_DuplicateNameEndsInError ==
    \A r \in Requests :
        ~DistinctNames(req[r].files)
        => /\ WorkerStarted(r)
              => Cardinality({req[r].filepaths[i] :
                                 i \in 1 .. Len(req[r].filepaths)})
                     < Len(req[r].filepaths)
           /\ RanAlone(r)
              => /\ Status(processing_status[MyKey(r)]) = "error"
                 /\ processing_status[MyKey(r)].result
                        = << <<"FileNotFoundError">> >>

\* The task of a submission with a duplicate filename has ended.
C18_Witness ==
    \E r \in Requests :
        /\ ~DistinctNames(req[r].files)
        /\ RanAlone(r)
        /\ Status(processing_status[MyKey(r)]) = "error"

\* C19. After a /reset the registry holds no entry of a submission that was
\* registered before it (unless a later submission was given the same id):
\* neither the entry of the task nor the "_file" entry of its worker.
C19_ResetDropsForGood ==
    \A r \in Requests :
        (/\ req[r].wiped
         /\ \A q \in Requests \ {r} :
                (req[q].pc # "idle" /\ ~req[q].wiped)
                => req[q].task_id # req[r].task_id)
        => /\ check_status(MyKey(r)).code = 404
           /\ FileKey(req[r].task_id) \notin DOMAIN processing_status

\* ------------------------------------------------------- liveness
\* Every started thread keeps being scheduled.
LiveSpec == Spec /\ \A r \in Requests : WF_vars(Worker(r))

\* The thread of request r has just been started: upload_file is about to
\* return the task id.
Started(r) == req[r].pc = "loop" /\ req[r].idx = 1

\* C3 as stated: every accepted submission eventually reaches a terminal
\* status.
C3_AcceptedReachesTerminal ==
    \A r \in Requests : Started(r) ~> TaskTerminal(r)

\* C3, amended: every accepted submission eventually reaches a terminal
\* status, unless a /reset is served after the submission was registered.
C3_AcceptedReachesTerminalUnlessReset ==
    \A r \in Requests : Started(r) ~> (TaskTerminal(r) \/ req[r].wiped)

\* A task whose first file failed to extract and whose worker went on to
\* the end, leaving the task terminal.
C3_Witness ==
    \E r \in Requests :
        /\ req[r].files = <<BrokenTxt, NotesTxt>>
        /\ req[r].pc = "done"
        /\ ~req[r].wiped
        /\ TaskTerminal(r)

====
